---- MODULE Spec2Model ----
(***************************************************************************)
(* Model of main.py: the text normaliser (clean_text), the fold key        *)
(* (normalize_for_match), the keyword matcher (match_keywords), the        *)
(* aggregator (build_summary, list_keywords, search_keyword) and the       *)
(* pipeline run_pipeline over the data/, cleaned/ and keywords/            *)
(* directories.                                                            *)
(*                                                                         *)
(* A text is a sequence of characters.  The alphabet holds one character   *)
(* of every class the code's Unicode operations tell apart:                *)
(*   "J"        U+004A  cased letter, lower() gives "j"                    *)
(*   "j"        U+006A  lower-case letter                                  *)
(*   "caron"    U+030C  combining mark (not \w, not whitespace)            *)
(*   "jcaron"   U+01F0  the NFKC composition of "j" + "caron"              *)
(*   "sp"       U+0020  space                                              *)
(*   "nl"       U+000A  line boundary of str.splitlines                    *)
(*   "nbsp"     U+00A0  whitespace, NFKC maps it to "sp"                   *)
(*   "ideostop" U+3002  in PUNCT_TRANSLATION, mapped to "dot"              *)
(*   "dot"      U+002E  ASCII punctuation (not \w)                         *)
(***************************************************************************)
EXTENDS Integers, Sequences, FiniteSets, TLC

VARIABLES
    data,               \* DATA_DIR: the *.txt files, subject -> raw text
    cleaned_dir,        \* CLEANED_DIR: the *.txt files, subject -> text
    keywords_dir,       \* KEYWORDS_DIR: the *.txt files, subject -> lines
    keywords_txt,       \* KEYWORDS_PATH: NoFile, or File(lines of keywords.txt)
    summary_txt,        \* SUMMARY_PATH: NoFile, or File(summary)
    pc,                 \* position of main() / of the function under test
    matches_by_teacher, \* the match record: a function subject -> list of keywords
    error,              \* the exception that ended the run, or "none"
    written,            \* cleaned files written by the run in progress
    stdout,             \* lines printed by the query of the last run
    runs,               \* run_pipeline executions started so far
    edits,              \* changes made to the input files so far
    text0,              \* text functions: the input text
    text,               \* text functions: the text after whitespace insertions
    keyword,            \* text functions: the keyword
    result1,            \* text functions: result of the first call
    result2             \* text functions: result of the second call

vars == <<data, cleaned_dir, keywords_dir, keywords_txt, summary_txt, pc,
          matches_by_teacher, error, written, stdout, runs, edits,
          text0, text, keyword, result1, result2>>

pipeVars == <<data, cleaned_dir, keywords_dir, keywords_txt, summary_txt,
              matches_by_teacher, error, written, stdout, runs, edits>>

textVars == <<text0, text, keyword, result1, result2>>

\* a path that does not exist, and one that holds content
NoFile == <<>>

File(content) == <<content>>

Content(file) == file[1]

\* a directory is a function from the stems of its files to their contents
WriteFile(dir, s, content) ==
    [x \in DOMAIN dir \cup {s} |-> IF x = s THEN content ELSE dir[x]]

DeleteFile(dir, s) == [x \in DOMAIN dir \ {s} |-> dir[x]]

None == "<none>"

(***************************************************************************)
(* Characters                                                              *)
(***************************************************************************)
Chars == {"J", "j", "caron", "jcaron", "sp", "nl", "nbsp", "ideostop", "dot"}

\* str.isspace / the regex class \s
IsSpace(c) == c \in {"sp", "nl", "nbsp"}

\* the regex class \w (str.isalnum or "_"): letters only, in this alphabet
IsWord(c) == c \in {"J", "j", "jcaron"}

\* the boundaries str.splitlines splits on
IsLineBreak(c) == c = "nl"

\* str.lower, one character
LowerChar(c) == IF c = "J" THEN "j" ELSE c

\* PUNCT_TRANSLATION, one character
TranslateChar(c) == IF c = "ideostop" THEN "dot" ELSE c

\* NFKC compatibility mapping, one character
CompatChar(c) == IF c = "nbsp" THEN "sp" ELSE c

\* NFKC canonical decomposition, one character
DecomposeChar(c) == IF c = "jcaron" THEN <<"j", "caron">> ELSE <<c>>

(***************************************************************************)
(* Sequences                                                               *)
(***************************************************************************)
RECURSIVE FilterWord(_)
FilterWord(s) ==
    IF s = <<>> THEN <<>>
    ELSE IF IsWord(Head(s)) /\ ~IsSpace(Head(s))
         THEN <<Head(s)>> \o FilterWord(Tail(s))
         ELSE FilterWord(Tail(s))

\* Python's `s in t` on strings
IsSubstring(s, t) ==
    \E i \in 0..(Len(t) - Len(s)) : SubSeq(t, i + 1, i + Len(s)) = s

Contains(list, x) == \E i \in 1..Len(list) : list[i] = x

\* all sequences over S of length at most n
SeqsUpTo(S, n) == UNION {[1..m -> S] : m \in 0..n}

(***************************************************************************)
(* unicodedata.normalize("NFKC", text)                                     *)
(***************************************************************************)
\* canonical composition: a starter "j" followed by "caron" composes to
\* "jcaron"; "J" + "caron" has no composed form
RECURSIVE Compose(_)
Compose(s) ==
    IF Len(s) < 2 THEN s
    ELSE IF s[1] = "j" /\ s[2] = "caron"
         THEN <<"jcaron">> \o Compose(SubSeq(s, 3, Len(s)))
         ELSE <<s[1]>> \o Compose(Tail(s))

\* compatibility mapping and canonical decomposition of every character
RECURSIVE Decompose(_)
Decompose(s) ==
    IF s = <<>> THEN <<>>
    ELSE DecomposeChar(CompatChar(Head(s))) \o Decompose(Tail(s))

NFKC(s) == Compose(Decompose(s))

\* str.translate(PUNCT_TRANSLATION)
RECURSIVE Translate(_)
Translate(s) ==
    IF s = <<>> THEN <<>> ELSE <<TranslateChar(Head(s))>> \o Translate(Tail(s))

\* str.lower
RECURSIVE Lower(_)
Lower(s) == IF s = <<>> THEN <<>> ELSE <<LowerChar(Head(s))>> \o Lower(Tail(s))

(***************************************************************************)
(* str.splitlines, str.strip, re.sub(r"\s+", " ", line), "\n".join         *)
(***************************************************************************)
\* cur is the line being read; a last line without a line break is a line
\* only when it is not empty
RECURSIVE SplitFrom(_, _)
SplitFrom(s, cur) ==
    IF s = <<>> THEN (IF cur = <<>> THEN <<>> ELSE <<cur>>)
    ELSE IF IsLineBreak(Head(s))
         THEN <<cur>> \o SplitFrom(Tail(s), <<>>)
         ELSE SplitFrom(Tail(s), Append(cur, Head(s)))

SplitLines(s) == SplitFrom(s, <<>>)

RECURSIVE LStrip(_)
LStrip(s) == IF s # <<>> /\ IsSpace(Head(s)) THEN LStrip(Tail(s)) ELSE s

RECURSIVE RStrip(_)
RStrip(s) ==
    IF s # <<>> /\ IsSpace(s[Len(s)]) THEN RStrip(SubSeq(s, 1, Len(s) - 1)) ELSE s

Strip(s) == RStrip(LStrip(s))

\* every run of whitespace becomes one "sp"
RECURSIVE CollapseSpace(_)
CollapseSpace(s) ==
    IF s = <<>> THEN <<>>
    ELSE IF IsSpace(Head(s))
         THEN <<"sp">> \o CollapseSpace(LStrip(s))
         ELSE <<Head(s)>> \o CollapseSpace(Tail(s))

RECURSIVE JoinLines(_)
JoinLines(ls) ==
    IF ls = <<>> THEN <<>>
    ELSE IF Len(ls) = 1 THEN ls[1]
         ELSE ls[1] \o <<"nl">> \o JoinLines(Tail(ls))

\* the loop of clean_text: strip each line, drop the empty ones, collapse
RECURSIVE CleanLines(_)
CleanLines(ls) ==
    IF ls = <<>> THEN <<>>
    ELSE LET line == Strip(Head(ls))
         IN  IF line = <<>> THEN CleanLines(Tail(ls))
             ELSE <<CollapseSpace(line)>> \o CleanLines(Tail(ls))

clean_text(t) ==
    IF t = <<>> THEN <<>>
    ELSE Lower(JoinLines(CleanLines(SplitLines(Translate(NFKC(t))))))

normalize_for_match(t) == FilterWord(Lower(Translate(NFKC(t))))

(***************************************************************************)
(* Ordering.  Subject keys (file stems) are modelled by the integers       *)
(* 1..NumSubjects, a smaller integer being a stem that sorts first.        *)
(* Keywords are texts and compare as Python strings do: by code point.     *)
(***************************************************************************)
CodePoint(c) ==
    CASE c = "nl" -> 10
      [] c = "sp" -> 32
      [] c = "dot" -> 46
      [] c = "J" -> 74
      [] c = "j" -> 106
      [] c = "nbsp" -> 160
      [] c = "jcaron" -> 496
      [] c = "caron" -> 780
      [] c = "ideostop" -> 12290

RECURSIVE StrLess(_, _)
StrLess(a, b) ==
    IF b = <<>> THEN FALSE
    ELSE IF a = <<>> THEN TRUE
    ELSE IF Head(a) = Head(b) THEN StrLess(Tail(a), Tail(b))
    ELSE CodePoint(Head(a)) < CodePoint(Head(b))

\* sorted(list of subject keys)
RECURSIVE SortedKeys(_)
SortedKeys(S) ==
    IF S = {} THEN <<>>
    ELSE LET m == CHOOSE x \in S : \A y \in S \ {x} : x < y
         IN  <<m>> \o SortedKeys(S \ {m})

\* set(list)
ToSet(list) == {list[i] : i \in 1..Len(list)}

\* list[:n]
Prefix(list, n) == SubSeq(list, 1, IF Len(list) < n THEN Len(list) ELSE n)

(***************************************************************************)
(* load_keywords                                                           *)
(***************************************************************************)
RECURSIVE StripLines(_)
StripLines(ls) ==
    IF ls = <<>> THEN <<>>
    ELSE LET kw == Strip(Head(ls))
         IN  IF kw # <<>> THEN <<kw>> \o StripLines(Tail(ls))
             ELSE StripLines(Tail(ls))

\* the keywords of a keywords.txt that exists (lines: its lines)
load_keywords(lines) == StripLines(lines)

(***************************************************************************)
(* match_keywords: the scan of one cleaned file                            *)
(***************************************************************************)
\* rule (a), line 108: keyword.lower() in text
literal_match(kw, txt) == IsSubstring(Lower(kw), txt)

\* rule (b), line 109: normalized_keyword and normalized_keyword in normalized_text
fold_match(normalized_keyword, normalized_text) ==
    normalized_keyword # <<>> /\ IsSubstring(normalized_keyword, normalized_text)

\* faulty variant: rule (b) without the test that the fold key is not empty
keyword_matches_unguarded(kw, normalized_keyword, txt, normalized_text) ==
    literal_match(kw, txt) \/ IsSubstring(normalized_keyword, normalized_text)

\* the condition of the if statement, lines 108-110
keyword_matches(kw, normalized_keyword, txt, normalized_text) ==
    literal_match(kw, txt) \/ fold_match(normalized_keyword, normalized_text)

\* the inner for loop: found gets every matching keyword appended, in list order
RECURSIVE scan_keywords(_, _, _)
scan_keywords(keywords, txt, normalized_text) ==
    IF keywords = <<>> THEN <<>>
    ELSE LET kw == Head(keywords)
             rest == scan_keywords(Tail(keywords), txt, normalized_text)
         IN  IF keyword_matches(kw, normalize_for_match(kw), txt, normalized_text)
             THEN <<kw>> \o rest
             ELSE rest

found_in(keywords, txt) == scan_keywords(keywords, txt, normalize_for_match(txt))

(***************************************************************************)
(* build_summary, list_keywords, search_keyword                            *)
(***************************************************************************)
\* Counter: a function from the keys counted so far to their counts
CounterGet(counter, k) == IF k \in DOMAIN counter THEN counter[k] ELSE 0

CounterInc(counter, k) ==
    [x \in DOMAIN counter \cup {k} |-> CounterGet(counter, x) + (IF x = k THEN 1 ELSE 0)]

\* the elements of a set, one after the other
RECURSIVE Elements(_)
Elements(S) ==
    IF S = {} THEN <<>>
    ELSE LET k == CHOOSE x \in S : TRUE
         IN  <<k>> \o Elements(S \ {k})

\* faulty variant: the loop runs over matches, not over set(matches)
counted_keys_with_repeats(matches) == matches

\* what the inner loop runs over: set(matches)
counted_keys(matches) == Elements(ToSet(matches))

\* for keyword in ...: counts[keyword] += 1
RECURSIVE CountKeys(_, _)
CountKeys(counter, keys) ==
    IF keys = <<>> THEN counter
    ELSE CountKeys(CounterInc(counter, Head(keys)), Tail(keys))

\* for matches in matches_by_teacher.values(): ...
RECURSIVE CountAll(_, _, _)
CountAll(counter, mbt, todo) ==
    IF todo = {} THEN counter
    ELSE LET t == CHOOSE x \in todo : TRUE
         IN  CountAll(CountKeys(counter, counted_keys(mbt[t])), mbt, todo \ {t})

keyword_counts(mbt) == CountAll(<<>>, mbt, DOMAIN mbt)

keyword_lines(keywords, mbt) ==
    LET counts == keyword_counts(mbt)
    IN  [i \in 1..Len(keywords) |-> <<keywords[i], CounterGet(counts, keywords[i])>>]

teacher_counts(mbt) == [t \in DOMAIN mbt |-> Cardinality(ToSet(mbt[t]))]

\* faulty variant: a tie between two subjects is broken by the larger key
RankBefore_ties_descending(a, b) == a[2] > b[2] \/ (a[2] = b[2] /\ a[1] > b[1])

\* key=lambda item: (-item[1], item[0])
RankBefore(a, b) == a[2] > b[2] \/ (a[2] = b[2] /\ a[1] < b[1])

\* sorted(teacher_counts.items(), key=...)
RECURSIVE SortedByRank(_)
SortedByRank(S) ==
    IF S = {} THEN <<>>
    ELSE LET m == CHOOSE x \in S : \A y \in S \ {x} : RankBefore(x, y)
         IN  <<m>> \o SortedByRank(S \ {m})

TopN == 3

top_teachers(mbt) ==
    LET tc == teacher_counts(mbt)
    IN  Prefix(SortedByRank({<<t, tc[t]>> : t \in DOMAIN tc}), TopN)

\* faulty variant: a subject with one matched keyword is listed too
no_match_at_most_one(mbt) ==
    LET tc == teacher_counts(mbt)
    IN  SortedKeys({t \in DOMAIN tc : tc[t] <= 1})

\* sorted([teacher for teacher, count in teacher_counts.items() if count == 0])
no_match(mbt) ==
    LET tc == teacher_counts(mbt)
    IN  SortedKeys({t \in DOMAIN tc : tc[t] = 0})

\* the three sections of the summary text, each the lines under its header;
\* top_none and no_match_none say that the section holds the placeholder line
\* (lines 140 and 150) in place of subjects
build_summary(keywords, mbt) ==
    [keyword_lines  |-> keyword_lines(keywords, mbt),
     top_lines      |-> top_teachers(mbt),
     top_none       |-> ~(top_teachers(mbt) # <<>>),
     no_match_lines |-> no_match(mbt),
     no_match_none  |-> ~(no_match(mbt) # <<>>)]

\* key=lambda item: (-item[1], item[0]) on (keyword, count) items
KeywordRankBefore(a, b) == a[2] > b[2] \/ (a[2] = b[2] /\ StrLess(a[1], b[1]))

\* sorted(counts.items(), key=...)
RECURSIVE SortedByKeywordRank(_)
SortedByKeywordRank(S) ==
    IF S = {} THEN <<>>
    ELSE LET m == CHOOSE x \in S : \A y \in S \ {x} : KeywordRankBefore(x, y)
         IN  <<m>> \o SortedByKeywordRank(S \ {m})

\* the lines list_keywords prints: `ordered` is computed from the counter
\* before the keywords without hits are added to it
list_keywords(keywords, mbt) ==
    LET counts == keyword_counts(mbt)
        ordered == SortedByKeywordRank({<<k, counts[k]>> : k \in DOMAIN counts})
        filled == [k \in DOMAIN counts \cup ToSet(keywords) |-> CounterGet(counts, k)]
    IN  IF ordered # <<>> THEN ordered
        ELSE [i \in 1..Len(keywords) |-> <<keywords[i], filled[keywords[i]]>>]

\* the line printed when no subject matches; subject keys are 1, 2, ...
NoTeacherLine == 0

\* the lines search_keyword prints
search_keyword(kw, mbt) ==
    LET teachers == SortedKeys({t \in DOMAIN mbt : Contains(mbt[t], kw)})
    IN  IF teachers # <<>> THEN teachers ELSE <<NoTeacherLine>>

(***************************************************************************)
(* Bounds and input sets                                                   *)
(***************************************************************************)
NumSubjects == 2

MaxEdits == 3

MaxRuns == 2

MaxTeachers == 4

MaxTextLen == 3

MaxKeywordLen == 1

MaxInsert == 1

Subjects == 1..NumSubjects

\* raw documents: "J  J", "j<ideographic full stop>j", "<nbsp><newline>"
DocTexts == {<<"J", "sp", "sp", "J">>, <<"j", "ideostop", "j">>, <<"nbsp", "nl">>}

\* keywords.txt, its lines: an empty file; ".", " J", "."; " J", " ", ".";
\* "j j", ".", " J"
KeywordFiles ==
    {<<>>,
     << <<"dot">>, <<"sp", "J">>, <<"dot">> >>,
     << <<"sp", "J">>, <<"sp">>, <<"dot">> >>,
     << <<"j", "sp", "j">>, <<"dot">>, <<"sp", "J">> >>}

\* the keywords asked for with --search: "J", "." and one of no keywords.txt
QueryKeywords == {<<"J">>, <<"dot">>, <<"caron">>}

\* an empty directory
NoFiles == <<>>

NothingWritten == [cleaned |-> {}, keywords |-> {}, summary |-> FALSE]

\* main() is not running, or has ended
Between == {"idle", "exit", "listed", "searched", "failed"}

(***************************************************************************)
(* The pipeline: main() -> run_pipeline() -> query                         *)
(***************************************************************************)
Init ==
    /\ data = NoFiles
    /\ cleaned_dir = NoFiles
    /\ keywords_dir = NoFiles
    /\ keywords_txt \in {NoFile} \cup {File(lines) : lines \in KeywordFiles}
    /\ summary_txt = NoFile
    /\ pc = "idle"
    /\ matches_by_teacher = <<>>
    /\ error = "none"
    /\ written = NothingWritten
    /\ stdout = <<>>
    /\ runs = 0
    /\ edits = 0
    /\ text0 = None /\ text = None /\ keyword = None
    /\ result1 = None /\ result2 = None

\* the crawler (or the user) writes data/<s>.txt between two runs
PutDoc(s, t) ==
    /\ pc \in Between
    /\ edits < MaxEdits
    /\ (s \in DOMAIN data => data[s] # t)
    /\ data' = WriteFile(data, s, t)
    /\ edits' = edits + 1
    /\ UNCHANGED <<cleaned_dir, keywords_dir, keywords_txt, summary_txt, pc,
                   matches_by_teacher, error, written, stdout, runs>>
    /\ UNCHANGED textVars

\* data/<s>.txt is removed between two runs
RemoveDoc(s) ==
    /\ pc \in Between
    /\ edits < MaxEdits
    /\ s \in DOMAIN data
    /\ data' = DeleteFile(data, s)
    /\ edits' = edits + 1
    /\ UNCHANGED <<cleaned_dir, keywords_dir, keywords_txt, summary_txt, pc,
                   matches_by_teacher, error, written, stdout, runs>>
    /\ UNCHANGED textVars

\* main() starts; run_pipeline calls clean_all()
clean_all ==
    /\ pc \in Between
    /\ runs < MaxRuns
    /\ runs' = runs + 1
    /\ cleaned_dir' = [s \in DOMAIN cleaned_dir \cup DOMAIN data |->
                          IF s \in DOMAIN data THEN clean_text(data[s])
                          ELSE cleaned_dir[s]]
    /\ written' = [NothingWritten EXCEPT !.cleaned = DOMAIN data]
    /\ matches_by_teacher' = <<>>
    /\ error' = "none"
    /\ stdout' = <<>>
    /\ pc' = "cleaned"
    /\ UNCHANGED <<data, keywords_dir, keywords_txt, summary_txt, edits>>
    /\ UNCHANGED textVars

\* run_pipeline calls match_keywords()
match_keywords ==
    /\ pc = "cleaned"
    /\ IF keywords_txt = NoFile
       THEN /\ error' = "FileNotFoundError"
            /\ pc' = "failed"
            /\ UNCHANGED <<matches_by_teacher, keywords_dir, written>>
       ELSE LET keywords == load_keywords(Content(keywords_txt))
                found == [s \in DOMAIN cleaned_dir |->
                             found_in(keywords, cleaned_dir[s])]
            IN  /\ matches_by_teacher' = found
                /\ keywords_dir' = [s \in DOMAIN keywords_dir \cup DOMAIN found |->
                                       IF s \in DOMAIN found THEN found[s]
                                       ELSE keywords_dir[s]]
                /\ written' = [written EXCEPT !.keywords = DOMAIN found]
                /\ pc' = "matched"
                /\ UNCHANGED error
    /\ UNCHANGED <<data, cleaned_dir, keywords_txt, summary_txt, stdout, runs, edits>>
    /\ UNCHANGED textVars

\* run_pipeline calls write_summary(matches_by_teacher) and returns
write_summary ==
    /\ pc = "matched"
    /\ summary_txt' = File(build_summary(load_keywords(Content(keywords_txt)),
                                          matches_by_teacher))
    /\ written' = [written EXCEPT !.summary = TRUE]
    /\ pc' = "done"
    /\ UNCHANGED <<data, cleaned_dir, keywords_dir, keywords_txt,
                   matches_by_teacher, error, stdout, runs, edits>>
    /\ UNCHANGED textVars

\* main() with --list
ListKeywords ==
    /\ pc = "done"
    /\ stdout' = list_keywords(load_keywords(Content(keywords_txt)), matches_by_teacher)
    /\ pc' = "listed"
    /\ UNCHANGED <<data, cleaned_dir, keywords_dir, keywords_txt, summary_txt,
                   matches_by_teacher, error, written, runs, edits>>
    /\ UNCHANGED textVars

\* main() with --search kw
SearchKeyword(kw) ==
    /\ pc = "done"
    /\ stdout' = search_keyword(kw, matches_by_teacher)
    /\ pc' = "searched"
    /\ UNCHANGED <<data, cleaned_dir, keywords_dir, keywords_txt, summary_txt,
                   matches_by_teacher, error, written, runs, edits>>
    /\ UNCHANGED textVars

\* main() without a query
Exit ==
    /\ pc = "done"
    /\ pc' = "exit"
    /\ UNCHANGED <<data, cleaned_dir, keywords_dir, keywords_txt, summary_txt,
                   matches_by_teacher, error, written, stdout, runs, edits>>
    /\ UNCHANGED textVars

Next ==
    \/ \E s \in Subjects, t \in DocTexts : PutDoc(s, t)
    \/ \E s \in Subjects : RemoveDoc(s)
    \/ clean_all
    \/ match_keywords
    \/ write_summary
    \/ ListKeywords
    \/ \E kw \in QueryKeywords : SearchKeyword(kw)
    \/ Exit

Spec == Init /\ [][Next]_vars

(***************************************************************************)
(* The aggregator on its own: write_summary and list_keywords applied to   *)
(* any match record and any keywords.txt                                   *)
(***************************************************************************)
\* the lists match_keywords can store for a document: the keyword list with
\* the keywords of one set kept, in list order
MatchLists(keywords) ==
    {SelectSeq(keywords, LAMBDA k : k \in M) : M \in SUBSET ToSet(keywords)}

MatchRecords(keywords) ==
    UNION {[S -> MatchLists(keywords)] : S \in SUBSET (1..MaxTeachers)}

InitAgg ==
    /\ data = NoFiles
    /\ cleaned_dir = NoFiles
    /\ keywords_dir = NoFiles
    /\ keywords_txt \in {File(lines) : lines \in KeywordFiles}
    /\ summary_txt = NoFile
    /\ pc = "matched"
    /\ matches_by_teacher \in MatchRecords(load_keywords(Content(keywords_txt)))
    /\ error = "none"
    /\ written = NothingWritten
    /\ stdout = <<>>
    /\ runs = 0
    /\ edits = 0
    /\ text0 = None /\ text = None /\ keyword = None
    /\ result1 = None /\ result2 = None

NextAgg ==
    \/ write_summary
    \/ ListKeywords

SpecAgg == InitAgg /\ [][NextAgg]_vars

(***************************************************************************)
(* The text functions on their own: clean_text applied twice, and the      *)
(* fold match of a keyword before and after whitespace is inserted         *)
(***************************************************************************)
InsertAt(s, i, c) == SubSeq(s, 1, i) \o <<c>> \o SubSeq(s, i + 1, Len(s))

InitText ==
    /\ data = NoFiles
    /\ cleaned_dir = NoFiles
    /\ keywords_dir = NoFiles
    /\ keywords_txt = NoFile
    /\ summary_txt = NoFile
    /\ pc = "text"
    /\ matches_by_teacher = <<>>
    /\ error = "none"
    /\ written = NothingWritten
    /\ stdout = <<>>
    /\ runs = 0
    /\ edits = 0
    /\ text0 \in SeqsUpTo(Chars, MaxTextLen)
    /\ text = text0
    /\ keyword \in SeqsUpTo(Chars, MaxKeywordLen)
    /\ result1 = None
    /\ result2 = None

\* clean_text(text0)
CleanFirst ==
    /\ pc = "text"
    /\ result1' = clean_text(text0)
    /\ pc' = "cleaned_once"
    /\ UNCHANGED <<text0, text, keyword, result2>>
    /\ UNCHANGED pipeVars

\* clean_text of the result of clean_text(text0)
CleanAgain ==
    /\ pc = "cleaned_once"
    /\ result2' = clean_text(result1)
    /\ pc' = "cleaned_twice"
    /\ UNCHANGED <<text0, text, keyword, result1>>
    /\ UNCHANGED pipeVars

\* does the keyword fold-match text0?
FoldFirst ==
    /\ pc = "text"
    /\ result1' = fold_match(normalize_for_match(keyword), normalize_for_match(text0))
    /\ pc' = "folded"
    /\ UNCHANGED <<text0, text, keyword, result2>>
    /\ UNCHANGED pipeVars

\* a whitespace character is inserted between two characters of the text
InsertWhitespace(i, c) ==
    /\ pc = "folded"
    /\ Len(text) < Len(text0) + MaxInsert
    /\ i \in 1..(Len(text) - 1)
    /\ IsSpace(c)
    /\ text' = InsertAt(text, i, c)
    /\ UNCHANGED <<text0, keyword, result1, result2, pc>>
    /\ UNCHANGED pipeVars

\* does the keyword fold-match the text with the whitespace inserted?
FoldAgain ==
    /\ pc = "folded"
    /\ result2' = fold_match(normalize_for_match(keyword), normalize_for_match(text))
    /\ pc' = "folded_again"
    /\ UNCHANGED <<text0, text, keyword, result1>>
    /\ UNCHANGED pipeVars

NextText ==
    \/ CleanFirst
    \/ CleanAgain
    \/ FoldFirst
    \/ \E i \in 1..(MaxTextLen + MaxInsert), c \in Chars : InsertWhitespace(i, c)
    \/ FoldAgain

SpecText == InitText /\ [][NextText]_vars

(***************************************************************************)
(* Properties                                                              *)
(***************************************************************************)
\* match_keywords has returned in the current run
Matched == pc \in {"matched", "done", "exit", "listed", "searched"}

LoadedKeywords == load_keywords(Content(keywords_txt))

\* C1: after match_keywords, for every cleaned file and every keyword of the
\* loaded list, the keyword is recorded for the file if and only if (a) the
\* lower-cased keyword is a substring of the text or (b) its fold key is not
\* empty and is a substring of the fold key of the text; every recorded
\* string is a keyword of the list, and the match file holds the same list.
C1_MatchIffLiteralOrFold ==
    (Matched /\ runs > 0) =>
        \A s \in DOMAIN cleaned_dir :
            /\ s \in DOMAIN matches_by_teacher
            /\ s \in DOMAIN keywords_dir
            /\ keywords_dir[s] = matches_by_teacher[s]
            /\ \A i \in 1..Len(LoadedKeywords) :
                 LET k == LoadedKeywords[i]
                     t == cleaned_dir[s]
                     a == IsSubstring(Lower(k), t)
                     b == /\ normalize_for_match(k) # <<>>
                          /\ IsSubstring(normalize_for_match(k), normalize_for_match(t))
                 IN  Contains(matches_by_teacher[s], k) <=> (a \/ b)
            /\ \A j \in 1..Len(matches_by_teacher[s]) :
                 Contains(LoadedKeywords, matches_by_teacher[s][j])

\* C1 witness: in one run a keyword was recorded through rule (b) alone, and
\* a keyword with an empty fold key was left out for a non-empty text.
C1_Witness ==
    /\ pc = "matched"
    /\ runs > 0
    /\ \E s \in DOMAIN matches_by_teacher :
         \E i \in 1..Len(LoadedKeywords) :
            /\ Contains(matches_by_teacher[s], LoadedKeywords[i])
            /\ ~IsSubstring(Lower(LoadedKeywords[i]), cleaned_dir[s])
    /\ \E s \in DOMAIN matches_by_teacher :
         \E i \in 1..Len(LoadedKeywords) :
            /\ normalize_for_match(LoadedKeywords[i]) = <<>>
            /\ cleaned_dir[s] # <<>>
            /\ ~Contains(matches_by_teacher[s], LoadedKeywords[i])

\* C2 (as claimed): the list match_keywords stores for a document holds
\* each keyword at most once, also when keywords.txt repeats a keyword.
C2_EachKeywordOnce ==
    (Matched /\ runs > 0) =>
        \A s \in DOMAIN matches_by_teacher :
            \A i, j \in 1..Len(matches_by_teacher[s]) :
                i # j => matches_by_teacher[s][i] # matches_by_teacher[s][j]

\* C4 (as claimed): when keywords.txt is missing the run fails before any
\* document is processed: at the moment of the error the run has written
\* no cleaned file, no match file and no summary.
C4_NothingProcessedBeforeFailure ==
    error = "FileNotFoundError" => written = NothingWritten

\* C10 (as claimed): the match record returned by a run has exactly one
\* entry per document of the data directory and no other entry.
C10_RecordIsCurrentCorpus ==
    pc = "done" => DOMAIN matches_by_teacher = DOMAIN data

\* the summary written by write_summary
Summary == Content(summary_txt)

\* number of subjects whose matched list contains the keyword
Hits(k) ==
    Cardinality({t \in DOMAIN matches_by_teacher : Contains(matches_by_teacher[t], k)})

\* number of distinct keywords in the subject's matched list
Distinct(t) == Cardinality(ToSet(matches_by_teacher[t]))

\* C5 (as claimed): --list prints every keyword of the keyword list with its
\* hit count, the keywords without hits included, by hit count descending
\* and then by keyword ascending.
C5_ListHasEveryKeyword ==
    pc = "listed" =>
        /\ \A k \in ToSet(LoadedKeywords) :
             \E i \in 1..Len(stdout) : stdout[i] = <<k, Hits(k)>>
        /\ \A i, j \in 1..Len(stdout) :
             i < j => \/ stdout[i][2] > stdout[j][2]
                      \/ /\ stdout[i][2] = stdout[j][2]
                         /\ ~StrLess(stdout[j][1], stdout[i][1])

\* C6: the summary has one line per keyword of the keyword list, in the
\* order of the list, and the count on the line is the number of distinct
\* subjects whose matched list contains the keyword (0 when there is none).
C6_CountIsDistinctSubjects ==
    summary_txt # NoFile =>
        /\ Len(Summary.keyword_lines) = Len(LoadedKeywords)
        /\ \A i \in 1..Len(LoadedKeywords) :
             Summary.keyword_lines[i] = <<LoadedKeywords[i], Hits(LoadedKeywords[i])>>

\* C6 witness: a summary where a keyword repeated in one subject's list is
\* counted, a keyword has no hit, and a later keyword has more hits than an
\* earlier one.
C6_Witness ==
    /\ summary_txt # NoFile
    /\ \E t \in DOMAIN matches_by_teacher :
         \E i, j \in 1..Len(matches_by_teacher[t]) :
            /\ i # j
            /\ matches_by_teacher[t][i] = matches_by_teacher[t][j]
            /\ Contains(LoadedKeywords, matches_by_teacher[t][i])
    /\ \E i \in 1..Len(Summary.keyword_lines) : Summary.keyword_lines[i][2] = 0
    /\ \E i, j \in 1..Len(Summary.keyword_lines) :
         i < j /\ Summary.keyword_lines[i][2] < Summary.keyword_lines[j][2]

\* C7: the Top-3 section is the placeholder exactly when there is no
\* subject; otherwise it holds min(3, number of subjects) subjects, each with
\* its distinct-keyword count, ordered by count descending and then by
\* subject key ascending, and every subject left out ranks after all of them.
C7_TopThree ==
    summary_txt # NoFile =>
        LET top == Summary.top_lines
            n == Cardinality(DOMAIN matches_by_teacher)
        IN  /\ (n = 0) <=> Summary.top_none
            /\ n = 0 => top = <<>>
            /\ n > 0 =>
                 /\ Len(top) = (IF n < 3 THEN n ELSE 3)
                 /\ \A i \in 1..Len(top) :
                      /\ top[i][1] \in DOMAIN matches_by_teacher
                      /\ top[i][2] = Distinct(top[i][1])
                 /\ \A i, j \in 1..Len(top) :
                      i < j => \/ top[i][2] > top[j][2]
                               \/ (top[i][2] = top[j][2] /\ top[i][1] < top[j][1])
                 /\ \A t \in DOMAIN matches_by_teacher :
                      (\A i \in 1..Len(top) : top[i][1] # t) =>
                          \A i \in 1..Len(top) :
                              \/ top[i][2] > Distinct(t)
                              \/ (top[i][2] = Distinct(t) /\ top[i][1] < t)

\* C7 witness: more than three subjects, a tie inside the Top-3 section, and
\* a subject left out that ties with the last one listed.
C7_Witness ==
    /\ summary_txt # NoFile
    /\ Cardinality(DOMAIN matches_by_teacher) > 3
    /\ Summary.top_lines[1][2] = Summary.top_lines[2][2]
    /\ \E t \in DOMAIN matches_by_teacher :
         /\ \A i \in 1..3 : Summary.top_lines[i][1] # t
         /\ Distinct(t) = Summary.top_lines[3][2]

\* C8: the zero-match list holds exactly the subjects whose matched list is
\* empty, in ascending key order; it is empty when there is none (an empty
\* record included), and the section then holds the placeholder line.
C8_ZeroMatchSection ==
    summary_txt # NoFile =>
        LET z == Summary.no_match_lines
            Z == {t \in DOMAIN matches_by_teacher : matches_by_teacher[t] = <<>>}
        IN  /\ Len(z) = Cardinality(Z)
            /\ \A i \in 1..Len(z) : z[i] \in Z
            /\ \A i, j \in 1..Len(z) : i < j => z[i] < z[j]
            /\ Summary.no_match_none <=> (Z = {})
            /\ DOMAIN matches_by_teacher = {} => z = <<>>

\* C8 witness: a summary of a record with two subjects without a match and
\* one with a match.
C8_Witness ==
    /\ summary_txt # NoFile
    /\ Len(Summary.no_match_lines) = 2
    /\ \E t \in DOMAIN matches_by_teacher : matches_by_teacher[t] # <<>>

\* C3 (as claimed): clean_text(clean_text(x)) = clean_text(x).
C3_CleanTextIdempotent ==
    pc = "cleaned_twice" => result2 = result1

\* C9 (as claimed): a keyword that fold-matches a text also fold-matches the
\* text with whitespace inserted between its characters.
C9_FoldMatchSurvivesWhitespace ==
    (pc = "folded_again" /\ result1 = TRUE) => result2 = TRUE

====
